---- MODULE Spec2Model ----
(***************************************************************************)
(* Model of the resilience and background-execution core.                  *)
(*                                                                         *)
(* Each component is its own state machine with its own specification      *)
(* (PoolSpec, BreakerSpec, RetrySpec, ...); the variables of the other     *)
(* components stay at their initial values.                                *)
(*                                                                         *)
(* The background worker pool of internal/worker/worker.go:                *)
(* WorkerPool (NewWorkerPool, RegisterHandler, Start, Stop, Submit) and    *)
(* its executors (Worker.start, Worker.stop, Worker.executeJob).           *)
(*                                                                         *)
(* Start, Stop and Submit are called from any number of goroutines; wp.mu  *)
(* is the pool mutex.  Start and Submit never block inside their critical  *)
(* section, so each critical section is one step; Stop blocks in wg.Wait() *)
(* while it holds the mutex, so it is two steps (StopBegin, StopFinish).   *)
(* A Submit call is a step that issues it (SubmitCall: the Job exists and  *)
(* the call waits for the mutex) and its critical section (SubmitBody). An *)
(* executor is at its select, between dequeue and handler lookup, or       *)
(* inside the handler.  A Go panic that nothing recovers ends the process: *)
(* crashed records which one, and no step is taken afterwards.             *)
(*                                                                         *)
(* The circuit breaker of pkg/resilience/circuit_breaker.go:               *)
(* CircuitBreaker (NewCircuitBreaker, Execute, Reset).  Execute takes      *)
(* cb.mu three times: to read the state, at the gate when it read Open,    *)
(* and to record what fn returned; fn runs with no lock held.  Each of     *)
(* these is one step of a call, so calls interleave as goroutines do.      *)
(* Time is counted in ticks since the last recorded failure.               *)
(*                                                                         *)
(* Retry of the same file: one call, its loop split at fn(), at the tests  *)
(* after a failed attempt, and at the select that sleeps.  Delays are      *)
(* whole ticks and the multiplier is counted in halves.                    *)
(*                                                                         *)
(* Timeout of the same file: one call at its select, and the goroutine it  *)
(* launched, inside fn, at its send into errChan, or gone.                 *)
(*                                                                         *)
(* RateLimiter of the same file: Allow is one critical section of rl.mu,   *)
(* so one step; the clock is a variable that ticks.                        *)
(***************************************************************************)
EXTENDS Naturals, Sequences, FiniteSets

\* ---- bounds of the model ------------------------------------------------
NumWorkers == 2      \* workerCount given to NewWorkerPool
QueueSize == 2       \* capacity of jobQueue (the code fixes 100; scaled down)
MaxJobs == 3         \* number of Job values the callers create
MaxStarts == 2       \* number of times Start may launch executors

Jobs == 1..MaxJobs
WorkerIds == 1..(MaxStarts * NumWorkers)
WorkerId(g, i) == (g - 1) * NumWorkers + i

\* job types.  wp.handlers starts empty, so a job of a type is one of an
\* unknown type until RegisterHandler has run for it.
HandlerTypes == {"email"}
JobTypes == {"email"}
\* what handler.Handle does: return nil, return an error, or panic
Outcomes == {"ok", "err", "panic"}
Terminal == {"completed", "failed"}

VARIABLES
    isRunning,      \* wp.isRunning
    mu,             \* wp.mu: "free", or "Stop" while a Stop call holds it
    queue,          \* buffered contents of wp.jobQueue
    queueClosed,    \* close(wp.jobQueue) has happened
    poolQuitClosed, \* close(wp.quit) has happened
    handlers,       \* keys of wp.handlers
    workers,        \* wp.workers: slot -> worker id, 0 for nil
    starts,         \* number of executor generations launched so far
    wpc,            \* position of each executor goroutine
    wjob,           \* job an executor holds, 0 for none
    wquit,          \* w.quit is closed
    wg,             \* wp.wg counter
    jobType,        \* Job.Type
    status,         \* Job.Status ("none": the Job does not exist yet)
    jobErr,         \* Job.Error
    nextJob,        \* next Job the callers create
    outcome,        \* history: what handler.Handle returned for the job
    inFlightAtStop, \* history: jobs held by an executor when Stop signalled
    headAtStop,     \* history: head of the queue when Stop signalled with an
                    \* executor idle at its select, else 0
    ret,            \* what Submit(job) returned ("none": not returned yet)
    crashed,        \* "none", or the unrecovered panic that ended the process
    wsub            \* for each executor, the job its handler last passed to
                    \* Submit on this pool, else 0

workerPoolVars == <<isRunning, mu, queue, queueClosed, poolQuitClosed, handlers, workers,
          starts, wpc, wjob, wquit, wg, jobType, status, jobErr, nextJob,
          outcome, inFlightAtStop, headAtStop, ret, crashed, wsub>>

poolVars == <<isRunning, mu, queue, queueClosed, poolQuitClosed, workers,
              starts, wpc, wjob, wquit, wg>>
jobVars == <<jobType, status, jobErr, nextJob>>
histVars == <<inFlightAtStop, headAtStop>>

\* ---- pkg/resilience/circuit_breaker.go: CircuitBreaker ---------------------
\* Execute is four steps: the read of cb.state under RLock (ExecRead), for a
\* call that read Open the timeout test under Lock (ExecGate), the call of fn
\* (ExecInvoke), and the bookkeeping under Lock once fn has returned
\* (ExecRecord).  Time is counted in ticks; only time.Since(cb.lastFailTime)
\* matters, so the model keeps that, saturated just above ResetTimeout.

MaxFailures == 2     \* maxFailures given to NewCircuitBreaker
ResetTimeout == 1    \* resetTimeout given to NewCircuitBreaker, in ticks
NumCalls == 2        \* goroutines calling Execute
ExtraFailures == 2   \* cb.failures is followed up to MaxFailures + ExtraFailures

Calls == 1..NumCalls
FailuresCap == MaxFailures + ExtraFailures
LongAgo == ResetTimeout + 1

VARIABLES
    state,          \* cb.state: "Closed", "Open", "HalfOpen"
    failures,       \* cb.failures
    sinceLastFail,  \* time.Since(cb.lastFailTime), saturated at LongAgo
    epc,            \* where each Execute call is: "idle", "gate", "admitted",
                    \* "calling"
    lstate,         \* the local variable state of each Execute call
    eret,           \* what each caller's last Execute returned
    consec,         \* history: consecutive failed ops since the last success
                    \* or Reset, saturated at MaxFailures
    sinceReset,     \* history: failures recorded since the last Reset,
                    \* saturated at MaxFailures
    resetBit,       \* history: flips at every Reset
    recovered       \* history: the last recorded outcome was a success
                    \* recorded while the breaker was HalfOpen

cbVars == <<state, failures, sinceLastFail>>
callVars == <<epc, lstate, eret>>
cbHist == <<consec, sinceReset, resetBit, recovered>>
breakerVars == <<cbVars, callVars, cbHist>>

\* ---- pkg/resilience/circuit_breaker.go: Retry ------------------------------
MaxAttemptsBound == 3   \* config.MaxAttempts ranges over 0..MaxAttemptsBound
MaxDelayBound == 4      \* config.MaxDelay ranges over 1..MaxDelayBound, in ticks

VARIABLES
    cfgAttempts,    \* config.MaxAttempts
    cfgInitial,     \* config.InitialDelay
    cfgMaxDelay,    \* config.MaxDelay
    cfgMult2,       \* config.BackoffMultiplier, in halves (3 is 1.5)
    rpc,            \* where Retry is: "attempt", "check", "sleep", "done"
    attempt,        \* the loop variable attempt
    delay,          \* the local variable delay
    rerr,           \* the local variable err: "nil" or "err"
    ctxDone,        \* ctx is cancelled
    rret,           \* what Retry returned: "none", "nil", "err", "cancelled"
    calls,          \* history: number of invocations of fn
    sleeps,         \* history: number of completed sleeps
    lastSlept,      \* history: length of the last completed sleep
    cancelPc        \* history: where Retry was when ctx was cancelled:
                    \* "never", "start" (before the call), or the value of rpc

retryVars == <<cfgAttempts, cfgInitial, cfgMaxDelay, cfgMult2, rpc, attempt,
               delay, rerr, ctxDone, rret, calls, sleeps, lastSlept, cancelPc>>

\* ---- pkg/resilience/circuit_breaker.go: Timeout ----------------------------
MaxDuration == 2        \* duration ranges over 0..MaxDuration ticks

VARIABLES
    tdur,           \* the argument duration
    telapsed,       \* time since Timeout was called, saturated at tdur
    parentDone,     \* the caller's ctx is cancelled
    tpc,            \* where Timeout is: "select" or "returned"
    tret,           \* what Timeout returned: "none", "nil", "err", "timed_out"
    opc,            \* the goroutine of line 166: "running" (inside fn),
                    \* "sending" (fn has returned), "exited"
    opRes,          \* what fn returned: "none", "nil", "err"
    opEffect,       \* fn has run to its end (its side effects are done)
    errChan,        \* the contents of errChan
    opEarly,        \* history: the result was sent before the deadline
    opLate          \* history: fn returned after Timeout had returned

timeoutVars == <<tdur, telapsed, parentDone, tpc, tret, opc, opRes, opEffect,
                 errChan, opEarly, opLate>>

\* ---- pkg/resilience/circuit_breaker.go: RateLimiter ------------------------
MaxTokens == 2          \* maxTokens given to NewRateLimiter
RefillRate == 2         \* refillRate given to NewRateLimiter, in ticks
MaxTime == 6            \* the clock runs from 0 to MaxTime

NumWaiters == 1         \* number of goroutines that call Wait

Times == 0..MaxTime
Waiters == 1..NumWaiters

VARIABLES
    bnow,           \* time.Now(), in ticks since NewRateLimiter
    tokens,         \* rl.tokens
    lastRefillTime, \* rl.lastRefillTime
    allowed,        \* what the last Allow returned: "none", "true", "false"
    allowBit,       \* history: flips at every Allow
    succSince,      \* history: for each time t, the number of Allow calls
                    \* that returned true at t or later
    added,          \* history: tokens added by refills, before the cap
    capHit,         \* history: some refill was cut by the cap
    waitPc,         \* where each Wait call is: "idle", "poll" (about to call
                    \* Allow), "select", "ok", "cancelled"
    waitCtx,        \* the ctx of each Wait call is cancelled
    waitStart,      \* when each Wait call entered its select
    waitTook        \* history: tokens each Wait call has consumed

rlVars == <<bnow, tokens, lastRefillTime, allowed, allowBit, succSince, added,
            capHit>>
waitVars == <<waitPc, waitCtx, waitStart, waitTook>>
bucketVars == <<rlVars, waitVars>>

vars == <<workerPoolVars, breakerVars, retryVars, timeoutVars, bucketVars>>
notPool == <<breakerVars, retryVars, timeoutVars, bucketVars>>
notBreaker == <<workerPoolVars, retryVars, timeoutVars, bucketVars>>
notRetry == <<workerPoolVars, breakerVars, timeoutVars, bucketVars>>
notTimeout == <<workerPoolVars, breakerVars, retryVars, bucketVars>>
notBucket == <<workerPoolVars, breakerVars, retryVars, timeoutVars>>

\* NewWorkerPool
PoolInit ==
    /\ isRunning = FALSE
    /\ mu = "free"
    /\ queue = <<>>
    /\ queueClosed = FALSE
    /\ poolQuitClosed = FALSE
    /\ handlers = {}
    /\ workers = [i \in 1..NumWorkers |-> 0]
    /\ starts = 0
    /\ wpc = [w \in WorkerIds |-> "none"]
    /\ wjob = [w \in WorkerIds |-> 0]
    /\ wquit = [w \in WorkerIds |-> FALSE]
    /\ wg = 0
    /\ jobType = [j \in Jobs |-> "none"]
    /\ status = [j \in Jobs |-> "none"]
    /\ jobErr = [j \in Jobs |-> "nil"]
    /\ nextJob = 1
    /\ outcome = [j \in Jobs |-> "none"]
    /\ inFlightAtStop = {}
    /\ headAtStop = 0
    /\ ret = [j \in Jobs |-> "none"]
    /\ crashed = "none"
    /\ wsub = [w \in WorkerIds |-> 0]

Alive == crashed = "none"

\* WorkerPool.RegisterHandler: an unsynchronised map write.  When an executor
\* is reading the map at the same time the Go runtime may abort the process
\* ("concurrent map read and map write") or let both accesses through.
MapReadInProgress == \E w \in WorkerIds : wpc[w] = "lookup"

RegisterHandler(t) ==
    /\ Alive
    /\ handlers' = handlers \cup {t}
    /\ \/ crashed' = crashed
       \/ MapReadInProgress /\ crashed' = "map_race"
    /\ UNCHANGED <<poolVars, jobVars, outcome, ret, histVars>>
    /\ UNCHANGED <<wsub, notPool>>

\* Start without its early return
StartLaunches_Unguarded == TRUE

\* the early return of Start: if wp.isRunning { return }
StartLaunches == ~isRunning

\* WorkerPool.Start
Start ==
    /\ Alive
    /\ mu = "free"
    /\ IF StartLaunches
       THEN /\ starts < MaxStarts
            /\ starts' = starts + 1
            /\ workers' = [i \in 1..NumWorkers |-> WorkerId(starts + 1, i)]
            /\ wpc' = [w \in WorkerIds |->
                         IF \E i \in 1..NumWorkers : w = WorkerId(starts + 1, i)
                         THEN "select" ELSE wpc[w]]
            /\ wg' = wg + NumWorkers
            /\ isRunning' = TRUE
       ELSE UNCHANGED <<starts, workers, wpc, wg, isRunning>>
    /\ UNCHANGED <<mu, queue, queueClosed, poolQuitClosed, handlers, wjob,
                   wquit, jobVars, outcome, histVars, ret, crashed>>
    /\ UNCHANGED <<wsub, notPool>>

\* the executors blocked in the select of Worker.start
IdleExecutors == {w \in WorkerIds : wpc[w] = "select"}

\* the jobs executors hold (dequeued, executeJob not yet returned)
InFlight == {wjob[w] : w \in {x \in WorkerIds : wjob[x] # 0}}

\* WorkerPool.Stop up to wg.Wait(): close(wp.quit), then worker.stop() for
\* every worker.  Closing a closed channel panics.
StopBegin ==
    /\ Alive
    /\ mu = "free"
    /\ IF ~isRunning
       THEN UNCHANGED <<poolVars, histVars, crashed>>
       ELSE IF poolQuitClosed
            THEN /\ crashed' = "close_closed"
                 /\ UNCHANGED <<poolVars, histVars>>
            ELSE /\ poolQuitClosed' = TRUE
                 /\ wquit' = [w \in WorkerIds |->
                                IF \E i \in 1..NumWorkers : workers[i] = w
                                THEN TRUE ELSE wquit[w]]
                 /\ mu' = "Stop"
                 /\ inFlightAtStop' = InFlight
                 /\ headAtStop' = IF Len(queue) > 0 /\ IdleExecutors # {}
                                  THEN Head(queue) ELSE 0
                 /\ UNCHANGED <<isRunning, queue, queueClosed, workers, starts,
                                wpc, wjob, wg, crashed>>
    /\ UNCHANGED <<handlers, jobVars, outcome, ret>>
    /\ UNCHANGED <<wsub, notPool>>

\* Stop without wg.Wait()
WaitGroupDone_NoWait == TRUE

\* wp.wg.Wait() returns
WaitGroupDone == wg = 0

\* WorkerPool.Stop from wg.Wait() on: close(wp.jobQueue), isRunning = false,
\* and the deferred unlock
StopFinish ==
    /\ Alive
    /\ mu = "Stop"
    /\ WaitGroupDone
    /\ queueClosed' = TRUE
    /\ isRunning' = FALSE
    /\ mu' = "free"
    /\ UNCHANGED <<queue, poolQuitClosed, handlers, workers, starts, wpc, wjob,
                   wquit, wg, jobVars, outcome, histVars, ret, crashed>>
    /\ UNCHANGED <<wsub, notPool>>

\* a caller builds a Job (Status "pending", as the callers of the package do)
\* and calls Submit; the call now waits for wp.mu
SubmitCall(t) ==
    /\ Alive
    /\ nextJob <= MaxJobs
    /\ jobType' = [jobType EXCEPT ![nextJob] = t]
    /\ status' = [status EXCEPT ![nextJob] = "pending"]
    /\ nextJob' = nextJob + 1
    /\ UNCHANGED <<poolVars, handlers, jobErr, outcome, histVars, ret, crashed>>
    /\ UNCHANGED <<wsub, notPool>>

\* the Submit calls that have not returned
Submitting == {j \in Jobs : status[j] # "none" /\ ret[j] = "none"}

\* the send case of Submit's select is ready
QueueHasRoom == Len(queue) < QueueSize

\* WorkerPool.Submit, the critical section.  A send on a closed channel panics.
\* a send that puts the job in the buffer twice
Enqueue_Twice(q, j) == Append(Append(q, j), j)

\* wp.jobQueue <- job
Enqueue(q, j) == Append(q, j)

SubmitBody(j) ==
    /\ Alive
    /\ j \in Submitting
    /\ mu = "free"
    /\ IF ~isRunning
       THEN /\ ret' = [ret EXCEPT ![j] = "not_running"]
            /\ UNCHANGED <<queue, crashed>>
       ELSE IF queueClosed
            THEN /\ crashed' = "send_closed"
                 /\ UNCHANGED <<queue, ret>>
            ELSE IF QueueHasRoom
                 THEN /\ queue' = Enqueue(queue, j)
                      /\ ret' = [ret EXCEPT ![j] = "ok"]
                      /\ UNCHANGED crashed
                 ELSE /\ ret' = [ret EXCEPT ![j] = "queue_full"]
                      /\ UNCHANGED <<queue, crashed>>
    /\ UNCHANGED <<isRunning, mu, queueClosed, poolQuitClosed, handlers,
                   workers, starts, wpc, wjob, wquit, wg, jobVars, outcome,
                   histVars>>
    /\ UNCHANGED <<wsub, notPool>>

\* the cases of the select in Worker.start that are ready
JobCaseReady == Len(queue) > 0 \/ queueClosed
QuitCaseReady(w) == wquit[w]

\* a receive that leaves the job in the buffer
QueueAfterReceive_Keep(q) == q

\* a receive takes the head out of the channel's buffer
QueueAfterReceive(q) == Tail(q)

\* Worker.start, case job := <-w.jobQueue.  A closed and empty channel yields
\* nil, and executeJob(nil) dereferences it.
WorkerReceive(w) ==
    /\ Alive
    /\ wpc[w] = "select"
    /\ JobCaseReady
    /\ IF Len(queue) > 0
       THEN /\ wjob' = [wjob EXCEPT ![w] = Head(queue)]
            /\ queue' = QueueAfterReceive(queue)
            /\ wpc' = [wpc EXCEPT ![w] = "lookup"]
            /\ UNCHANGED crashed
       ELSE /\ crashed' = "nil_job"
            /\ UNCHANGED <<wjob, queue, wpc>>
    /\ UNCHANGED <<isRunning, mu, queueClosed, poolQuitClosed, handlers,
                   workers, starts, wquit, wg, jobVars, outcome, histVars,
                   ret>>
    /\ UNCHANGED <<wsub, notPool>>

\* Worker.start, case <-w.quit: return, and the deferred wg.Done()
WorkerQuit(w) ==
    /\ Alive
    /\ wpc[w] = "select"
    /\ QuitCaseReady(w)
    /\ wpc' = [wpc EXCEPT ![w] = "exited"]
    /\ wg' = wg - 1
    /\ UNCHANGED <<isRunning, mu, queue, queueClosed, poolQuitClosed, handlers,
                   workers, starts, wjob, wquit, jobVars, outcome, histVars,
                   ret, crashed>>
    /\ UNCHANGED <<wsub, notPool>>

\* a lookup that finds a handler for every type
HandlerExists_Always(t) == TRUE

\* handler, exists := w.handlers[job.Type]
HandlerExists(t) == t \in handlers

\* Worker.executeJob, the handler lookup
WorkerLookup(w) ==
    /\ Alive
    /\ wpc[w] = "lookup"
    /\ IF HandlerExists(jobType[wjob[w]])
       THEN /\ wpc' = [wpc EXCEPT ![w] = "handling"]
            /\ UNCHANGED <<wjob, status, jobErr>>
       ELSE /\ status' = [status EXCEPT ![wjob[w]] = "failed"]
            /\ jobErr' = [jobErr EXCEPT ![wjob[w]] = "no_handler"]
            /\ wjob' = [wjob EXCEPT ![w] = 0]
            /\ wpc' = [wpc EXCEPT ![w] = "select"]
    /\ UNCHANGED <<isRunning, mu, queue, queueClosed, poolQuitClosed, handlers,
                   workers, starts, wquit, wg, jobType, nextJob, outcome,
                   histVars, ret, crashed>>
    /\ UNCHANGED <<wsub, notPool>>

\* the handler running on executor w is inside a Submit call that has not
\* returned
HandlerBlocked(w) == wsub[w] # 0 /\ ret[wsub[w]] = "none"

\* the handler running on executor w builds a Job and calls Submit on the pool
\* it runs in; the call now waits for wp.mu
HandlerSubmit(w, t) ==
    /\ Alive
    /\ wpc[w] = "handling"
    /\ ~HandlerBlocked(w)
    /\ nextJob <= MaxJobs
    /\ jobType' = [jobType EXCEPT ![nextJob] = t]
    /\ status' = [status EXCEPT ![nextJob] = "pending"]
    /\ nextJob' = nextJob + 1
    /\ wsub' = [wsub EXCEPT ![w] = nextJob]
    /\ UNCHANGED <<poolVars, handlers, jobErr, outcome, histVars, ret, crashed>>
    /\ UNCHANGED notPool

\* the err test of executeJob inverted
StatusAfter_Inverted(o) == IF o = "ok" THEN "failed" ELSE "completed"

\* Worker.executeJob: if err := handler.Handle(ctx, job); err != nil
StatusAfter(o) == IF o = "ok" THEN "completed" ELSE "failed"

\* Worker.executeJob, handler.Handle returns (or panics: nothing recovers)
HandlerReturn(w, o) ==
    /\ Alive
    /\ wpc[w] = "handling"
    /\ ~HandlerBlocked(w)
    /\ IF o = "panic"
       THEN /\ crashed' = "handler_panic"
            /\ UNCHANGED <<wpc, wjob, status, jobErr, outcome>>
       ELSE /\ status' = [status EXCEPT ![wjob[w]] = StatusAfter(o)]
            /\ jobErr' = [jobErr EXCEPT ![wjob[w]] =
                            IF o = "ok" THEN jobErr[wjob[w]] ELSE "handler_error"]
            /\ outcome' = [outcome EXCEPT ![wjob[w]] = o]
            /\ wjob' = [wjob EXCEPT ![w] = 0]
            /\ wpc' = [wpc EXCEPT ![w] = "select"]
            /\ UNCHANGED crashed
    /\ UNCHANGED <<isRunning, mu, queue, queueClosed, poolQuitClosed, handlers,
                   workers, starts, wquit, wg, jobType, nextJob, histVars,
                   ret>>
    /\ UNCHANGED <<wsub, notPool>>

\* ---- CircuitBreaker ---------------------------------------------------------

Min(a, b) == IF a < b THEN a ELSE b

\* NewCircuitBreaker: Closed, no failures, lastFailTime the zero time
BreakerInit ==
    /\ state = "Closed"
    /\ failures = 0
    /\ sinceLastFail = LongAgo
    /\ epc = [c \in Calls |-> "idle"]
    /\ lstate = [c \in Calls |-> "none"]
    /\ eret = [c \in Calls |-> "none"]
    /\ consec = 0
    /\ sinceReset = MaxFailures
    /\ resetBit = FALSE
    /\ recovered = FALSE

\* a state test that never sees Open
IsOpen_Never(s) == FALSE

\* if state == StateOpen
IsOpen(s) == s = "Open"

\* Execute: cb.mu.RLock(); state := cb.state; cb.mu.RUnlock()
ExecRead(c) ==
    /\ epc[c] = "idle"
    /\ lstate' = [lstate EXCEPT ![c] = state]
    /\ epc' = [epc EXCEPT ![c] = IF IsOpen(state) THEN "gate" ELSE "admitted"]
    /\ eret' = [eret EXCEPT ![c] = "none"]
    /\ UNCHANGED <<cbVars, cbHist, notBreaker>>

\* a timeout test that lets a call through at exactly resetTimeout
TimeoutElapsed_Inclusive == sinceLastFail >= ResetTimeout

\* time.Since(cb.lastFailTime) > cb.resetTimeout
TimeoutElapsed == sinceLastFail > ResetTimeout

\* Execute, the branch for state == StateOpen, under cb.mu.Lock()
ExecGateBody(c) ==
    /\ epc[c] = "gate"
    /\ IF TimeoutElapsed
       THEN /\ state' = "HalfOpen"
            /\ epc' = [epc EXCEPT ![c] = "admitted"]
            /\ UNCHANGED <<lstate, eret>>
       ELSE /\ eret' = [eret EXCEPT ![c] = "circuit_open"]
            /\ epc' = [epc EXCEPT ![c] = "idle"]
            /\ lstate' = [lstate EXCEPT ![c] = "none"]
            /\ UNCHANGED state
    /\ UNCHANGED <<failures, sinceLastFail, cbHist>>

\* a call of Execute from outside Retry at its timeout test
ExecGate(c) == ExecGateBody(c) /\ UNCHANGED notBreaker

\* Execute: err := fn() is called
ExecInvoke(c) ==
    /\ epc[c] = "admitted"
    /\ epc' = [epc EXCEPT ![c] = "calling"]
    /\ UNCHANGED <<cbVars, lstate, eret, cbHist, notBreaker>>

\* a threshold test that is off by one
Trips_Late(f) == f > MaxFailures

\* cb.failures >= cb.maxFailures
Trips(f) == f >= MaxFailures

\* Execute from the return of fn on, under cb.mu.Lock(): o is what fn returned
\* a success that leaves the counter as it is
FailuresAfterSuccess_Kept == failures

\* Execute, success: cb.failures = 0
FailuresAfterSuccess == 0

ExecRecordBody(c, o) ==
    /\ epc[c] = "calling"
    /\ IF o = "err"
       THEN /\ failures < FailuresCap
            /\ failures' = failures + 1
            /\ sinceLastFail' = 0
            /\ state' = IF Trips(failures + 1) THEN "Open" ELSE state
            /\ consec' = Min(consec + 1, MaxFailures)
            /\ sinceReset' = Min(sinceReset + 1, MaxFailures)
       ELSE /\ state' = IF state = "HalfOpen" THEN "Closed" ELSE state
            /\ failures' = FailuresAfterSuccess
            /\ consec' = 0
            /\ UNCHANGED <<sinceLastFail, sinceReset>>
    /\ recovered' = (o = "nil" /\ state = "HalfOpen")
    /\ eret' = [eret EXCEPT ![c] = o]
    /\ epc' = [epc EXCEPT ![c] = "idle"]
    /\ lstate' = [lstate EXCEPT ![c] = "none"]
    /\ UNCHANGED resetBit

\* fn returns in a call of Execute from outside Retry
ExecRecord(c, o) == ExecRecordBody(c, o) /\ UNCHANGED notBreaker

\* a Reset that leaves the counter alone
FailuresAfterReset_Kept == failures

\* Reset: cb.failures = 0
FailuresAfterReset == 0

\* CircuitBreaker.Reset
Reset ==
    /\ state' = "Closed"
    /\ failures' = FailuresAfterReset
    /\ consec' = 0
    /\ sinceReset' = 0
    /\ resetBit' = ~resetBit
    /\ recovered' = FALSE
    /\ UNCHANGED <<sinceLastFail, callVars, notBreaker>>

\* the clock advances by one tick
Tick ==
    /\ sinceLastFail < LongAgo
    /\ sinceLastFail' = sinceLastFail + 1
    /\ UNCHANGED <<state, failures, callVars, cbHist, notBreaker>>

BreakerNext ==
    \/ \E c \in Calls : ExecRead(c)
    \/ \E c \in Calls : ExecGate(c)
    \/ \E c \in Calls : ExecInvoke(c)
    \/ \E c \in Calls, o \in {"nil", "err"} : ExecRecord(c, o)
    \/ Reset
    \/ Tick

\* callers that use the breaker one call at a time
NoCallInProgress == \A c \in Calls : epc[c] = "idle"
ExecReadSeq(c) == NoCallInProgress /\ ExecRead(c)
ResetSeq == NoCallInProgress /\ Reset

BreakerSeqNext ==
    \/ \E c \in Calls : ExecReadSeq(c)
    \/ \E c \in Calls : ExecGate(c)
    \/ \E c \in Calls : ExecInvoke(c)
    \/ \E c \in Calls, o \in {"nil", "err"} : ExecRecord(c, o)
    \/ ResetSeq
    \/ Tick

\* ---- Retry ------------------------------------------------------------------

\* DefaultRetryConfig with the delays in ticks, Retry not running
RetryParked ==
    /\ cfgAttempts = 3
    /\ cfgInitial = 1
    /\ cfgMaxDelay = 4
    /\ cfgMult2 = 4
    /\ rpc = "done"
    /\ attempt = 1
    /\ delay = 1
    /\ rerr = "nil"
    /\ ctxDone = FALSE
    /\ rret = "none"
    /\ calls = 0
    /\ sleeps = 0
    /\ lastSlept = 0
    /\ cancelPc = "never"

\* Retry(ctx, config, fn) is called: var err error; delay := InitialDelay
RetryInit ==
    /\ cfgAttempts \in 0..MaxAttemptsBound
    /\ cfgInitial \in 1..MaxDelayBound
    /\ cfgMaxDelay \in 1..MaxDelayBound
    /\ cfgMult2 \in {2, 3, 4}
    /\ rpc = "attempt"
    /\ attempt = 1
    /\ delay = cfgInitial
    /\ rerr = "nil"
    /\ ctxDone \in BOOLEAN
    /\ rret = "none"
    /\ calls = 0
    /\ sleeps = 0
    /\ lastSlept = 0
    /\ cancelPc = IF ctxDone THEN "start" ELSE "never"

\* Retry: the loop test and err = fn(); o is what the function given to Retry
\* returns and n the number of invocations of the caller's fn it has made
RetryAttemptBody(o, n) ==
    /\ rpc = "attempt"
    /\ IF attempt <= cfgAttempts
       THEN /\ calls' = calls + n
            /\ rerr' = o
            /\ IF o = "nil"
               THEN rpc' = "done" /\ rret' = "nil"
               ELSE rpc' = "check" /\ UNCHANGED rret
       ELSE /\ rpc' = "done"
            /\ rret' = rerr
            /\ UNCHANGED <<calls, rerr>>
    /\ UNCHANGED <<cfgAttempts, cfgInitial, cfgMaxDelay, cfgMult2, attempt,
                   delay, ctxDone, sleeps, lastSlept, cancelPc>>

\* Retry called with the caller's fn itself
RetryAttempt(o) == RetryAttemptBody(o, 1) /\ UNCHANGED notRetry

\* a loop that sleeps after the last attempt too
IsLastAttempt_Never == FALSE

\* if attempt == config.MaxAttempts { break }
IsLastAttempt == attempt = cfgAttempts

\* Retry after a failed attempt: the ctx.Err() test and the last-attempt test
RetryCheck ==
    /\ rpc = "check"
    /\ IF ctxDone
       THEN rpc' = "done" /\ rret' = "cancelled"
       ELSE IF IsLastAttempt
            THEN rpc' = "done" /\ rret' = rerr
            ELSE rpc' = "sleep" /\ UNCHANGED rret
    /\ UNCHANGED <<cfgAttempts, cfgInitial, cfgMaxDelay, cfgMult2, attempt,
                   delay, rerr, ctxDone, calls, sleeps, lastSlept, cancelPc,
                   notRetry>>

\* a backoff that is never capped
NextDelay_Uncapped(d) == (d * cfgMult2) \div 2

\* delay = time.Duration(float64(delay) * config.BackoffMultiplier), capped
NextDelay(d) == Min((d * cfgMult2) \div 2, cfgMaxDelay)

\* Retry, case <-time.After(delay): the sleep is over, attempt++
RetrySleepBody ==
    /\ rpc = "sleep"
    /\ sleeps' = sleeps + 1
    /\ lastSlept' = delay
    /\ delay' = NextDelay(delay)
    /\ attempt' = attempt + 1
    /\ rpc' = "attempt"
    /\ UNCHANGED <<cfgAttempts, cfgInitial, cfgMaxDelay, cfgMult2, rerr,
                   ctxDone, rret, calls, cancelPc>>

RetrySleepDone == RetrySleepBody /\ UNCHANGED notRetry

\* Retry, case <-ctx.Done()
RetryCancelled ==
    /\ rpc = "sleep"
    /\ ctxDone
    /\ rpc' = "done"
    /\ rret' = "cancelled"
    /\ UNCHANGED <<cfgAttempts, cfgInitial, cfgMaxDelay, cfgMult2, attempt,
                   delay, rerr, ctxDone, calls, sleeps, lastSlept, cancelPc,
                   notRetry>>

\* the caller cancels ctx
Cancel ==
    /\ rpc # "done"
    /\ ~ctxDone
    /\ ctxDone' = TRUE
    /\ cancelPc' = rpc
    /\ UNCHANGED <<cfgAttempts, cfgInitial, cfgMaxDelay, cfgMult2, rpc, attempt,
                   delay, rerr, rret, calls, sleeps, lastSlept, notRetry>>

\* ---- RetryWithCircuitBreaker: Retry whose function is cb.Execute(fn) ------
\* One caller, call slot 1 of the breaker.  rpc stays "attempt" while Execute
\* runs; the step in which Execute returns is also the step in which Retry
\* gets its result.  The clock of the breaker advances during the backoffs.
CbCall == 1

\* RetryWithCircuitBreaker(ctx, cb, config, fn) is called; a zero InitialDelay
\* is a configuration like any other
RetryCBInit ==
    /\ cfgAttempts \in 0..MaxAttemptsBound
    /\ cfgInitial \in 0..MaxDelayBound
    /\ cfgMaxDelay \in 1..MaxDelayBound
    /\ cfgMult2 \in {2, 3, 4}
    /\ rpc = "attempt"
    /\ attempt = 1
    /\ delay = cfgInitial
    /\ rerr = "nil"
    /\ ctxDone \in BOOLEAN
    /\ rret = "none"
    /\ calls = 0
    /\ sleeps = 0
    /\ lastSlept = 0
    /\ cancelPc = IF ctxDone THEN "start" ELSE "never"

notRetryCB == <<workerPoolVars, timeoutVars, bucketVars>>

\* the loop test holds and the closure calls cb.Execute(fn): the read of state
RCBRead ==
    /\ rpc = "attempt"
    /\ attempt <= cfgAttempts
    /\ ExecRead(CbCall)

\* the loop test fails: return err
RCBLoopEnd ==
    /\ attempt > cfgAttempts
    /\ RetryAttempt("nil")

\* Execute read Open and the reset timeout has elapsed: Half-Open, go on
RCBAdmit ==
    /\ rpc = "attempt"
    /\ TimeoutElapsed
    /\ ExecGate(CbCall)

\* Execute read Open within the reset timeout: the closure returns the
\* circuit-open error to Retry and fn is not invoked
RCBReject ==
    /\ rpc = "attempt"
    /\ ~TimeoutElapsed
    /\ ExecGateBody(CbCall)
    /\ RetryAttemptBody("circuit_open", 0)
    /\ UNCHANGED notRetryCB

\* Execute calls fn
RCBInvoke ==
    /\ rpc = "attempt"
    /\ ExecInvoke(CbCall)

\* fn returns o; Execute records it and returns it to Retry
RCBRecord(o) ==
    /\ rpc = "attempt"
    /\ ExecRecordBody(CbCall, o)
    /\ RetryAttemptBody(o, 1)
    /\ UNCHANGED notRetryCB

\* the backoff is over: the time it took has passed for the breaker too
RCBSleepDone ==
    /\ RetrySleepBody
    /\ sinceLastFail' = Min(sinceLastFail + delay, LongAgo)
    /\ UNCHANGED <<state, failures, callVars, cbHist>>
    /\ UNCHANGED notRetryCB

RetryCBNext ==
    \/ RCBRead
    \/ RCBLoopEnd
    \/ RCBAdmit
    \/ RCBReject
    \/ RCBInvoke
    \/ \E o \in {"nil", "err"} : RCBRecord(o)
    \/ RetryCheck
    \/ RCBSleepDone
    \/ RetryCancelled
    \/ Cancel

RetryNext ==
    \/ \E o \in {"nil", "err"} : RetryAttempt(o)
    \/ RetryCheck
    \/ RetrySleepDone
    \/ RetryCancelled
    \/ Cancel

\* ---- Timeout ----------------------------------------------------------------

\* no Timeout call running
TimeoutParked ==
    /\ tdur = 0
    /\ telapsed = 0
    /\ parentDone = FALSE
    /\ tpc = "returned"
    /\ tret = "none"
    /\ opc = "exited"
    /\ opRes = "none"
    /\ opEffect = FALSE
    /\ errChan = <<>>
    /\ opEarly = FALSE
    /\ opLate = FALSE

\* Timeout(ctx, duration, fn) is called: context.WithTimeout, errChan made,
\* the goroutine launched, Timeout at its select
TimeoutInit ==
    /\ tdur \in 0..MaxDuration
    /\ telapsed = 0
    /\ parentDone \in BOOLEAN
    /\ tpc = "select"
    /\ tret = "none"
    /\ opc = "running"
    /\ opRes = "none"
    /\ opEffect = FALSE
    /\ errChan = <<>>
    /\ opEarly = FALSE
    /\ opLate = FALSE

\* errChan := make(chan error, 1)
ErrChanCap == 1

\* the deadline of context.WithTimeout(ctx, duration) has passed
DeadlineFired == telapsed >= tdur

\* ctx.Done() of the derived context is closed: by its deadline or its parent
CtxDone == parentDone \/ DeadlineFired

\* fn is func() error: the derived ctx is not passed to it, and the only
\* context it can hold is the caller's
OpSignal == parentDone

\* the clock advances by one tick
TimeoutTick ==
    /\ telapsed < tdur
    /\ telapsed' = telapsed + 1
    /\ UNCHANGED <<tdur, parentDone, tpc, tret, opc, opRes, opEffect, errChan,
                   opEarly, opLate, notTimeout>>

\* the caller cancels its ctx
ParentCancel ==
    /\ ~parentDone
    /\ parentDone' = TRUE
    /\ UNCHANGED <<tdur, telapsed, tpc, tret, opc, opRes, opEffect, errChan,
                   opEarly, opLate, notTimeout>>

\* an fn that is stopped when Timeout returns
OpMayRun_UntilReturn == tpc # "returned"

\* nothing in Timeout stops the goroutine of fn
OpMayRun == TRUE

\* go func() { ... fn() ... }: fn returns r
OpReturn(r) ==
    /\ opc = "running"
    /\ OpMayRun
    /\ opc' = "sending"
    /\ opRes' = r
    /\ opEffect' = TRUE
    /\ opLate' = (tpc = "returned")
    /\ UNCHANGED <<tdur, telapsed, parentDone, tpc, tret, errChan, opEarly,
                   notTimeout>>

\* a send on an unbuffered channel: it completes only while Timeout is at its
\* select to receive it
ErrChanReady_Unbuffered == tpc = "select"

\* the send on errChan can complete: the buffer has room
ErrChanReady == Len(errChan) < ErrChanCap

\* errChan <- fn(): the send, then the goroutine ends
OpSend ==
    /\ opc = "sending"
    /\ ErrChanReady
    /\ errChan' = Append(errChan, opRes)
    /\ opc' = "exited"
    /\ opEarly' = ~DeadlineFired
    /\ UNCHANGED <<tdur, telapsed, parentDone, tpc, tret, opRes, opEffect,
                   opLate, notTimeout>>

\* select, case err := <-errChan: return err
TimeoutRecv ==
    /\ tpc = "select"
    /\ errChan # <<>>
    /\ tret' = Head(errChan)
    /\ errChan' = Tail(errChan)
    /\ tpc' = "returned"
    /\ UNCHANGED <<tdur, telapsed, parentDone, opc, opRes, opEffect, opEarly,
                   opLate, notTimeout>>

\* select, case <-ctx.Done(): return errors.New("operation timed out")
TimeoutDone ==
    /\ tpc = "select"
    /\ CtxDone
    /\ tret' = "timed_out"
    /\ tpc' = "returned"
    /\ UNCHANGED <<tdur, telapsed, parentDone, opc, opRes, opEffect, errChan,
                   opEarly, opLate, notTimeout>>

TimeoutNext ==
    \/ TimeoutTick
    \/ ParentCancel
    \/ \E r \in {"nil", "err"} : OpReturn(r)
    \/ OpSend
    \/ TimeoutRecv
    \/ TimeoutDone

\* ---- RateLimiter -------------------------------------------------------------

\* NewRateLimiter(MaxTokens, RefillRate)
BucketInit ==
    /\ bnow = 0
    /\ tokens = MaxTokens
    /\ lastRefillTime = 0
    /\ allowed = "none"
    /\ allowBit = FALSE
    /\ succSince = [t \in Times |-> 0]
    /\ added = 0
    /\ capHit = FALSE
    /\ waitPc = [w \in Waiters |-> "idle"]
    /\ waitCtx = [w \in Waiters |-> FALSE]
    /\ waitStart = [w \in Waiters |-> 0]
    /\ waitTook = [w \in Waiters |-> 0]

\* a refill that counts a started interval as a whole one
TokensToAdd_Ceil(elapsed) == (elapsed + RefillRate - 1) \div RefillRate

\* tokensToAdd := int(elapsed / rl.refillRate)
TokensToAdd(elapsed) == elapsed \div RefillRate

\* a refill with no ceiling
CapTokens_None(t) == t

\* if rl.tokens > rl.maxTokens { rl.tokens = rl.maxTokens }
CapTokens(t) == IF t > MaxTokens THEN MaxTokens ELSE t

\* a grant that leaves the token in the bucket
TokensAfterGrant_Free(t) == t

\* rl.tokens--
TokensAfterGrant(t) == t - 1

\* RateLimiter.Allow, one critical section of rl.mu: what it does to the bucket
AllowBody ==
    LET toAdd == TokensToAdd(bnow - lastRefillTime)
        refilled == IF toAdd > 0 THEN CapTokens(tokens + toAdd) ELSE tokens
    IN /\ lastRefillTime' = IF toAdd > 0 THEN bnow ELSE lastRefillTime
       /\ IF refilled > 0
          THEN /\ tokens' = TokensAfterGrant(refilled)
               /\ allowed' = "true"
               /\ succSince' = [t \in Times |->
                                  IF t <= bnow THEN succSince[t] + 1
                                  ELSE succSince[t]]
          ELSE /\ tokens' = refilled
               /\ allowed' = "false"
               /\ UNCHANGED succSince
       /\ allowBit' = ~allowBit
       /\ added' = added + toAdd
       /\ capHit' = (capHit \/ tokens + toAdd > MaxTokens)
       /\ UNCHANGED <<bnow, notBucket>>

\* a call of RateLimiter.Allow from outside Wait
Allow == AllowBody /\ UNCHANGED waitVars

\* the clock advances by one tick
BucketTick ==
    /\ bnow < MaxTime
    /\ bnow' = bnow + 1
    /\ UNCHANGED <<tokens, lastRefillTime, allowed, allowBit, succSince, added,
                   capHit, waitVars, notBucket>>

\* Wait(ctx) is called
WaitCall(w) ==
    /\ waitPc[w] = "idle"
    /\ waitPc' = [waitPc EXCEPT ![w] = "poll"]
    /\ UNCHANGED <<rlVars, waitCtx, waitStart, waitTook, notBucket>>

\* a Wait that goes on polling whatever Allow returned
WaitAfterAllow_Deaf(got) == "select"

\* Wait: if rl.Allow() { return nil }
WaitAfterAllow(got) == IF got = "true" THEN "ok" ELSE "select"

\* Wait: the call of rl.Allow() and what follows it
WaitPoll(w) ==
    /\ waitPc[w] = "poll"
    /\ AllowBody
    /\ waitPc' = [waitPc EXCEPT ![w] = WaitAfterAllow(allowed')]
    /\ waitTook' = [waitTook EXCEPT ![w] =
                      IF allowed' = "true" THEN waitTook[w] + 1 ELSE waitTook[w]]
    /\ waitStart' = [waitStart EXCEPT ![w] = bnow]
    /\ UNCHANGED waitCtx

\* Wait, case <-time.After(rl.refillRate): continue
WaitTimer(w) ==
    /\ waitPc[w] = "select"
    /\ bnow - waitStart[w] >= RefillRate
    /\ waitPc' = [waitPc EXCEPT ![w] = "poll"]
    /\ UNCHANGED <<rlVars, waitCtx, waitStart, waitTook, notBucket>>

\* Wait, case <-ctx.Done(): return ctx.Err()
WaitCancelled(w) ==
    /\ waitPc[w] = "select"
    /\ waitCtx[w]
    /\ waitPc' = [waitPc EXCEPT ![w] = "cancelled"]
    /\ UNCHANGED <<rlVars, waitCtx, waitStart, waitTook, notBucket>>

\* the caller of Wait cancels its ctx
WaitCancel(w) ==
    /\ waitPc[w] \in {"idle", "poll", "select"}
    /\ ~waitCtx[w]
    /\ waitCtx' = [waitCtx EXCEPT ![w] = TRUE]
    /\ UNCHANGED <<rlVars, waitPc, waitStart, waitTook, notBucket>>

BucketNext ==
    \/ Allow
    \/ BucketTick
    \/ \E w \in Waiters : WaitCall(w)
    \/ \E w \in Waiters : WaitPoll(w)
    \/ \E w \in Waiters : WaitTimer(w)
    \/ \E w \in Waiters : WaitCancelled(w)
    \/ \E w \in Waiters : WaitCancel(w)

\* ---- specifications ---------------------------------------------------------

PoolNext ==
    \/ \E t \in HandlerTypes : RegisterHandler(t)
    \/ Start
    \/ StopBegin
    \/ StopFinish
    \/ \E t \in JobTypes : SubmitCall(t)
    \/ \E j \in Jobs : SubmitBody(j)
    \/ \E w \in WorkerIds : WorkerReceive(w)
    \/ \E w \in WorkerIds : WorkerQuit(w)
    \/ \E w \in WorkerIds : WorkerLookup(w)
    \/ \E w \in WorkerIds, o \in Outcomes : HandlerReturn(w, o)

\* the pool with handlers that call Submit on it
PoolReentrantNext ==
    \/ PoolNext
    \/ \E w \in WorkerIds, t \in JobTypes : HandlerSubmit(w, t)

\* every component as constructed, no Retry call running
Init == PoolInit /\ BreakerInit /\ RetryParked /\ TimeoutParked /\ BucketInit

\* every component as constructed, one Retry call starting
InitRetry ==
    PoolInit /\ BreakerInit /\ RetryInit /\ TimeoutParked /\ BucketInit

\* every component as constructed, one RetryWithCircuitBreaker call starting
InitRetryCB ==
    PoolInit /\ BreakerInit /\ RetryCBInit /\ TimeoutParked /\ BucketInit

\* every component as constructed, one Timeout call at its select
InitTimeout ==
    PoolInit /\ BreakerInit /\ RetryParked /\ TimeoutInit /\ BucketInit

PoolSpec == Init /\ [][PoolNext]_vars

\* The host scheduler runs every runnable goroutine: an executor that can
\* take a step takes one, a handler returns, and a call that can enter its
\* critical section does.  Callers are free never to call again.
PoolFairness ==
    /\ \A w \in WorkerIds :
          /\ WF_vars(WorkerReceive(w))
          /\ WF_vars(WorkerQuit(w))
          /\ WF_vars(WorkerLookup(w))
          /\ WF_vars(\E o \in Outcomes : HandlerReturn(w, o))
    /\ \A j \in Jobs : WF_vars(SubmitBody(j))
    /\ WF_vars(StopFinish)

PoolFairSpec == PoolSpec /\ PoolFairness

\* the pool with handlers that call Submit on it, under the same scheduler
PoolReentrantSpec == Init /\ [][PoolReentrantNext]_vars
PoolReentrantFairSpec == PoolReentrantSpec /\ PoolFairness

\* concurrent Execute and Reset calls on one breaker
BreakerSpec == Init /\ [][BreakerNext]_vars

\* a call that has taken the lock or been admitted goes on
BreakerFairSpec ==
    BreakerSpec /\ \A c \in Calls : WF_vars(ExecGate(c)) /\ WF_vars(ExecInvoke(c))

\* Execute and Reset calls one after the other
BreakerSeqSpec == Init /\ [][BreakerSeqNext]_vars

\* one call of Retry, for every configuration within the bounds
RetrySpec == InitRetry /\ [][RetryNext]_vars

\* one RetryWithCircuitBreaker call on a fresh breaker, no other caller
RetryCBSpec == InitRetryCB /\ [][RetryCBNext]_vars

\* fn returns, the timer fires, and Retry goes on
RetryFairSpec ==
    RetrySpec /\ WF_vars(\E o \in {"nil", "err"} : RetryAttempt(o))
             /\ WF_vars(RetryCheck) /\ WF_vars(RetrySleepDone)

\* one call of Timeout, for every duration within the bound
TimeoutSpec == InitTimeout /\ [][TimeoutNext]_vars

\* time passes and Timeout itself, once a case of its select is ready, goes
\* on; fn may run forever
TimeoutFairSpec ==
    TimeoutSpec /\ WF_vars(TimeoutTick) /\ WF_vars(TimeoutRecv \/ TimeoutDone)

\* as TimeoutFairSpec, with an fn that returns
TimeoutOpFairSpec ==
    TimeoutFairSpec /\ WF_vars(\E r \in {"nil", "err"} : OpReturn(r))
                    /\ WF_vars(OpSend)

\* Allow calls on one bucket, at any times up to MaxTime
BucketSpec == Init /\ [][BucketNext]_vars

\* a Wait call goes on, and a case of its select that is ready again and again
\* is chosen in the end (Go chooses among ready cases at random)
BucketFairSpec ==
    BucketSpec /\ \A w \in Waiters :
        WF_vars(WaitPoll(w)) /\ SF_vars(WaitCancelled(w))

\* ---- properties ------------------------------------------------------------

\* handler invocations in progress
InProgress == {w \in WorkerIds : wpc[w] = "handling"}
\* a Stop call on a running pool has returned
StopReturned == poolQuitClosed /\ mu = "free"
\* Submit(j) returned nil
Accepted(j) == ret[j] = "ok"
\* the status of a job that has reached a terminal status never changes again
TerminalOnce == [][\A j \in Jobs : status[j] \in Terminal => status'[j] = status[j]]_vars

\* C1 (as claimed): every job whose Submit returned ok eventually reaches a
\* terminal status (unless a panic ends the process first), and changes status
\* at most once, under any interleaving of Submit, Stop and executor steps.
C1_Original ==
    /\ \A j \in Jobs : [](Accepted(j) => <>(status[j] \in Terminal \/ ~Alive))
    /\ TerminalOnce

\* C1 (amended): every job whose Submit returned ok makes at most one
\* transition to a terminal status, and eventually makes one unless Stop
\* signals the executors (or a panic ends the process) before it has.
C1_Amended ==
    /\ \A j \in Jobs :
         [](Accepted(j) => <>(status[j] \in Terminal \/ poolQuitClosed \/ ~Alive))
    /\ TerminalOnce

C1_Witness ==
    \E j \in Jobs : Accepted(j) /\ status[j] = "completed" /\ ~poolQuitClosed

\* C2: in every reachable state the number of handler invocations in progress
\* is at most the configured worker count.
C2_ConcurrencyCap == Cardinality(InProgress) <= NumWorkers

C2_Witness == Cardinality(InProgress) = NumWorkers /\ NumWorkers > 1

SubmitStep(j) ==
    /\ j \in Submitting
    /\ ret'[j] # "none" \/ crashed' = "send_closed"

\* C4 (as claimed): Submit returns not_running iff the pool is not running,
\* else queue_full (queue unchanged) iff the queue holds QueueSize jobs, else it
\* appends the job at the tail and returns ok; the queue never exceeds QueueSize.
C4_Original ==
    /\ [][\A j \in Jobs : SubmitStep(j) =>
            /\ (ret'[j] = "not_running") <=> ~isRunning
            /\ isRunning => ((ret'[j] = "queue_full") <=> (Len(queue) = QueueSize))
            /\ ret'[j] \in {"not_running", "queue_full"} => queue' = queue
            /\ (isRunning /\ Len(queue) < QueueSize) =>
                   (ret'[j] = "ok" /\ queue' = Append(queue, j))]_vars
    /\ [](Len(queue) <= QueueSize)

\* C5 (as claimed): a Submit call that has been issued never has to wait for a
\* handler invocation to complete: it is never behind the mutex of a Stop
\* that is waiting for a handler in progress.
C5_Original ==
    \A j \in Submitting : ~(mu = "Stop" /\ InProgress # {})

\* C6 (as claimed): a panic inside a handler is caught by the executor; it
\* never ends the process.
C6_Original == crashed # "handler_panic"

\* C7 (as claimed): once Stop has completed (the queue is closed) the pool is
\* never running again and no second generation of executors is launched.
C7_Original == queueClosed => (~isRunning /\ starts <= 1)

\* C8 (as claimed): no interleaving of Start, Stop and Submit reaches an
\* error state: no send on the closed queue, no channel closed twice, no nil
\* job received from the closed queue.
C8_Original == crashed \notin {"send_closed", "close_closed", "nil_job"}

\* C9 (as claimed): once Stop has signalled an executor (its quit channel is
\* closed), the executor dequeues no further job: from its select it only
\* exits.
C9_Original ==
    [][\A w \in WorkerIds :
         (wquit[w] /\ wpc[w] = "select") => wpc'[w] \in {"select", "exited"}]_vars

\* C10 (as claimed): a job accepted by a running pool that is at the head of
\* the queue, with an executor idle, when Stop is called has been run by the
\* time Stop returns: it is no longer pending.
C10_Original ==
    (StopReturned /\ headAtStop # 0) => status[headAtStop] # "pending"

\* C10 (amended): a job an executor had dequeued when Stop was called has been
\* run to a terminal status when Stop returns, and its status is completed if
\* its handler returned success.
C10_Amended ==
    StopReturned =>
        \A j \in inFlightAtStop :
            /\ status[j] \in Terminal
            /\ outcome[j] = "ok" => status[j] = "completed"

C10_Witness ==
    /\ StopReturned
    /\ \E j \in inFlightAtStop : outcome[j] = "ok" /\ status[j] = "completed"

\* C11: when an executor leaves the handler lookup with a job whose type has
\* no handler, the job is failed with the no-handler error, no handler has
\* run for it, and the executor is back at its select; with a handler the
\* handler is invoked.  When a handler returns, the job is failed with the
\* handler's error if it returned one and completed (no error) otherwise, and
\* the executor is back at its select.
C11_ExecuteJob ==
    [][\A w \in WorkerIds :
         LET j == wjob[w] IN
         /\ (wpc[w] = "lookup" /\ wpc'[w] # "lookup") =>
               IF jobType[j] \in handlers
               THEN wpc'[w] = "handling" /\ status'[j] = "pending"
               ELSE /\ status'[j] = "failed" /\ jobErr'[j] = "no_handler"
                    /\ outcome'[j] = "none"
                    /\ wpc'[w] = "select" /\ wjob'[w] = 0
         /\ (wpc[w] = "handling" /\ wpc'[w] # "handling") =>
               /\ outcome'[j] \in {"ok", "err"}
               /\ outcome'[j] = "err" =>
                     status'[j] = "failed" /\ jobErr'[j] = "handler_error"
               /\ outcome'[j] = "ok" =>
                     status'[j] = "completed" /\ jobErr'[j] = "nil"
               /\ wpc'[w] = "select" /\ wjob'[w] = 0]_vars

C11_Witness ==
    \E j1, j2, j3 \in Jobs :
        /\ status[j1] = "failed" /\ jobErr[j1] = "no_handler"
        /\ status[j2] = "failed" /\ jobErr[j2] = "handler_error"
        /\ status[j3] = "completed"

\* ---- circuit breaker: property helpers --------------------------------------
Admits(c) == epc[c] \in {"idle", "gate"} /\ epc'[c] = "admitted"
Invokes(c) == epc[c] = "admitted" /\ epc'[c] = "calling"
Records(c, o) == epc[c] = "calling" /\ epc'[c] = "idle" /\ eret'[c] = o
Rejects(c) == epc[c] = "gate" /\ epc'[c] = "idle" /\ eret'[c] = "circuit_open"
WithinTimeout == sinceLastFail <= ResetTimeout

\* C12 (as stated): while the breaker is Open and at most R has elapsed since
\* the last failure, no Execute call invokes its op and none returns success.
C12_Original ==
    [][(state = "Open" /\ WithinTimeout) =>
          \A c \in Calls : ~Invokes(c) /\ ~Records(c, "nil")]_vars

\* C12 (amended): while the breaker is Open and at most R has elapsed since the
\* last failure, no Execute call is admitted; a call admitted before the
\* breaker opened may still invoke its op and return success.
C12_Amended ==
    [][(state = "Open" /\ WithinTimeout) => \A c \in Calls : ~Admits(c)]_vars

C12_Witness ==
    /\ state = "Open"
    /\ WithinTimeout
    /\ \E c, d \in Calls :
         /\ eret[c] = "circuit_open" /\ epc[c] = "idle"
         /\ epc[d] = "calling" /\ lstate[d] = "Closed"

\* C13: for sequential Execute calls on a Closed breaker, the breaker is Closed
\* only while fewer than F consecutive failures have occurred, a success sets
\* the counter to zero, the F-th consecutive failure opens the breaker, and a
\* call that finds it Open within R returns circuit_open without invoking op.
C13_Sequential ==
    [][\A c \in Calls :
         /\ (state = "Closed" /\ epc[c] = "calling" /\ epc'[c] # "calling") =>
               /\ failures = consec /\ consec < MaxFailures
               /\ Records(c, "nil") \/ Records(c, "err")
               /\ Records(c, "nil") => state' = "Closed" /\ failures' = 0
               /\ Records(c, "err") =>
                     /\ failures' = failures + 1
                     /\ sinceLastFail' = 0
                     /\ state' = IF consec + 1 = MaxFailures THEN "Open" ELSE "Closed"
         /\ (state = "Open" /\ epc[c] = "idle" /\ epc'[c] # "idle") => epc'[c] = "gate"
         /\ (state = "Open" /\ WithinTimeout /\ epc[c] = "gate" /\ epc'[c] # "gate") =>
               Rejects(c) /\ state' = "Open"]_vars

C13_Witness ==
    /\ state = "Open"
    /\ failures = MaxFailures
    /\ consec = MaxFailures
    /\ WithinTimeout
    /\ \E c \in Calls : eret[c] = "circuit_open" /\ epc[c] = "idle"

\* C14 (as stated): whenever an Execute call records a failure while the
\* breaker is HalfOpen, the breaker is Open right afterwards and the last
\* failure is stamped now.
C14_Original ==
    [][\A c \in Calls :
         (state = "HalfOpen" /\ Records(c, "err")) =>
             state' = "Open" /\ sinceLastFail' = 0]_vars

\* C15 (as stated): while the breaker is HalfOpen and a probe's op is in
\* flight, no other Execute call is admitted or invokes its op.
C15_Original ==
    [][\A c \in Calls :
         (state = "HalfOpen" /\ \E d \in Calls \ {c} : epc[d] = "calling") =>
             ~Admits(c) /\ ~Invokes(c)]_vars

\* C16 (as stated): a success recorded while the breaker is HalfOpen leaves it
\* Closed with failure counter zero, and for F > 1 the next recorded failure
\* leaves it Closed.
C16_Original ==
    [][\A c \in Calls :
         /\ (state = "HalfOpen" /\ Records(c, "nil")) =>
               state' = "Closed" /\ failures' = 0
         /\ (recovered /\ MaxFailures > 1 /\ Records(c, "err")) =>
               state' = "Closed"]_vars

\* C17: a call that takes the lock while the breaker is Open moves it to
\* HalfOpen and is admitted if more than R has elapsed since the last recorded
\* failure, and otherwise leaves it Open and returns circuit_open; an admitted
\* call invokes its op.
C17_OpenNotPermanent ==
    /\ [][\A c \in Calls :
            (state = "Open" /\ epc[c] = "gate" /\ epc'[c] # "gate") =>
                IF sinceLastFail > ResetTimeout
                THEN state' = "HalfOpen" /\ Admits(c)
                ELSE state' = "Open" /\ Rejects(c)]_vars
    /\ \A c \in Calls : (epc[c] = "admitted") ~> (epc[c] = "calling")

C17_Witness ==
    /\ state = "HalfOpen"
    /\ \E c, d \in Calls :
         /\ epc[c] = "calling" /\ lstate[c] = "Open"
         /\ eret[d] = "circuit_open" /\ epc[d] = "idle"

\* C18 (as stated): every reachable (state, failure counter) pair is one the
\* sequential three-state machine can produce: Closed with fewer than F
\* failures, Open or HalfOpen with at least F.
C18_Original ==
    /\ state = "Closed" => failures < MaxFailures
    /\ state \in {"Open", "HalfOpen"} => failures >= MaxFailures

\* C19: Reset leaves the breaker Closed with failure counter 0 whatever the
\* state before, changes nothing when the breaker is already so, and until F
\* failures have been recorded after it the breaker is not Open, so that an
\* Execute call is admitted.
C19_Reset ==
    /\ [][(resetBit' # resetBit) =>
            /\ state' = "Closed" /\ failures' = 0
            /\ (state = "Closed" /\ failures = 0) => UNCHANGED cbVars]_vars
    /\ [](sinceReset < MaxFailures =>
            /\ state # "Open"
            /\ failures <= sinceReset)
    /\ [][\A c \in Calls :
            (sinceReset < MaxFailures /\ epc[c] = "idle" /\ epc'[c] # "idle") =>
                Admits(c)]_vars

C19_Witness ==
    /\ sinceReset = MaxFailures - 1
    /\ failures = MaxFailures - 1
    /\ state = "Closed"
    /\ sinceLastFail = 0
    /\ \E c \in Calls : epc[c] = "admitted"

\* ---- Retry: properties ------------------------------------------------------

\* C20: Retry with max-attempts A >= 1 invokes op at most A times; it returns
\* success right after the first successful invocation, with one sleep between
\* consecutive invocations and nothing after; when every attempt fails and
\* nothing is cancelled it has made exactly A invocations and A-1 sleeps; and
\* it terminates.
C20_RetryBound ==
    /\ [](cfgAttempts >= 1 =>
            /\ calls <= cfgAttempts
            /\ rpc \in {"check", "sleep"} => sleeps = calls - 1 /\ rerr = "err"
            /\ rret = "nil" => rerr = "nil" /\ calls >= 1 /\ sleeps = calls - 1
            /\ rret = "err" => calls = cfgAttempts /\ sleeps = cfgAttempts - 1)
    /\ [][rpc = "done" => UNCHANGED <<calls, sleeps, rret>>]_vars
    /\ <>(rpc = "done")

C20_Witness ==
    /\ rpc = "done"
    /\ rret = "err"
    /\ cfgAttempts = MaxAttemptsBound
    /\ calls = MaxAttemptsBound
    /\ sleeps = MaxAttemptsBound - 1
    /\ ~ctxDone


\* C21 (as stated): when the final (A-th) attempt fails, Retry returns the
\* error of that invocation, whatever the state of the cancel signal.
C21_Original ==
    (rpc = "done" /\ cfgAttempts >= 1 /\ calls = cfgAttempts /\ rerr = "err")
        => rret = "err"

RECURSIVE Pow(_, _)
Pow(b, k) == IF k = 0 THEN 1 ELSE b * Pow(b, k - 1)

\* the delays of section 3 computed as the loop does: whole units, one
\* multiplication and one cap per sleep
RECURSIVE IterDelay(_)
IterDelay(k) ==
    IF k = 0 THEN cfgInitial
    ELSE LET m == (IterDelay(k - 1) * cfgMult2) \div 2
         IN IF m > cfgMaxDelay THEN cfgMaxDelay ELSE m

\* C22 (as stated): the sleep after the k-th failed attempt (k = 0, 1, ...) is
\* min(D_max, D0 * beta^k), for every policy; beta is cfgMult2 / 2, so both
\* sides are compared after multiplying by 2^k.
C22_Original ==
    rpc = "sleep" =>
        LET k == sleeps
            lhs == delay * Pow(2, k)
            a == cfgMaxDelay * Pow(2, k)
            b == cfgInitial * Pow(cfgMult2, k)
        IN lhs = IF a < b THEN a ELSE b

\* C22 (amended): the first sleep is D0, each later sleep is the one before
\* times beta, cut to a whole unit and then capped at D_max; so every sleep but
\* the first is at most D_max, the first is too when D0 <= D_max, and for a
\* whole beta and D0 <= D_max the k-th sleep is min(D_max, D0 * beta^k).
C22_Amended ==
    rpc = "sleep" =>
        /\ delay = IterDelay(sleeps)
        /\ (sleeps >= 1 \/ cfgInitial <= cfgMaxDelay) => delay <= cfgMaxDelay
        /\ (cfgMult2 % 2 = 0 /\ cfgInitial <= cfgMaxDelay) =>
              LET c == cfgInitial * Pow(cfgMult2 \div 2, sleeps)
              IN delay = IF cfgMaxDelay < c THEN cfgMaxDelay ELSE c

C22_Witness ==
    /\ rpc = "sleep"
    /\ sleeps = 1
    /\ lastSlept = cfgInitial
    /\ cfgInitial < cfgMaxDelay
    /\ cfgInitial * cfgMult2 > 2 * cfgMaxDelay
    /\ delay = cfgMaxDelay

\* C23 (as stated): if the cancel signal fires while Retry is sleeping between
\* attempts, op is not invoked again by that call and Retry returns cancelled.
C23_Original ==
    /\ [][cancelPc = "sleep" => calls' = calls]_vars
    /\ []((cancelPc = "sleep" /\ rpc = "done") => rret = "cancelled")

\* ---- Timeout: properties ----------------------------------------------------
TimeoutReturns == tpc = "select" /\ tpc' = "returned"

\* C24 (as stated): once the deadline has fired Timeout returns, whatever fn
\* does; and if fn's result was delivered before the deadline, Timeout returns
\* that result.
C24_Original ==
    /\ DeadlineFired ~> (tpc = "returned")
    /\ [][(TimeoutReturns /\ opEarly /\ errChan # <<>>) => tret' = opRes]_vars

\* C25 (as stated): when Timeout returns timed_out, fn's result has not been
\* delivered: a result already in errChan is never replaced by timed_out.
C25_Original ==
    [][(TimeoutReturns /\ tret' = "timed_out") => errChan = <<>>]_vars

\* C26: Timeout does not stop fn: no step of Timeout changes where fn is, fn
\* that has returned has had its effect, and an fn that is still running when
\* Timeout returns timed_out goes on to its end.
C26_OpNotKilled ==
    /\ [][TimeoutReturns => UNCHANGED <<opc, opRes, opEffect>>]_vars
    /\ [](opc # "running" => opEffect)
    /\ (tret = "timed_out" /\ opc = "running") ~> (opEffect /\ opc = "exited")

C26_Witness ==
    /\ tret = "timed_out"
    /\ opLate
    /\ opEffect
    /\ opc = "exited"
    /\ errChan # <<>>

\* C27 (as stated): when the deadline or the caller's cancel signal fires
\* while fn is still running, fn has a cancellation signal to observe.
C27_Original ==
    (CtxDone /\ opc = "running") => OpSignal

\* ---- RateLimiter: properties ------------------------------------------------

\* C28 (as stated): over any interval of length T the number of successful
\* acquisitions is at most M + floor(T / I); the intervals are [t, bnow].
C28_Original ==
    \A t \in Times :
        t <= bnow => succSince[t] <= MaxTokens + (bnow - t) \div RefillRate

\* C28 (amended): over an interval of length T that starts at the bucket's
\* construction the number of successful acquisitions is at most
\* M + floor(T / I), and over any interval it is at most M + floor(T / I) + 1.
C28_Amended ==
    /\ succSince[0] <= MaxTokens + bnow \div RefillRate
    /\ \A t \in Times :
         t <= bnow => succSince[t] <= MaxTokens + (bnow - t) \div RefillRate + 1

C28_Witness ==
    \E t \in Times :
        /\ 0 < t /\ t < bnow
        /\ bnow - t < RefillRate
        /\ succSince[t] = MaxTokens + 1
        /\ succSince[0] = MaxTokens + bnow \div RefillRate

\* C29: a new bucket holds M tokens, and the token count is always between 0
\* and M.
C29_Bounds ==
    /\ allowed = "none" => tokens = MaxTokens
    /\ 0 <= tokens
    /\ tokens <= MaxTokens

C29_Witness ==
    /\ capHit
    /\ tokens = MaxTokens - 1
    /\ allowed = "true"
    /\ succSince[0] > MaxTokens

\* C30 (as stated): every access advances last_refill by exactly
\* tokens_to_add * I, and while the cap has not been hit the tokens added since
\* construction number floor(T / I).
C30_Original ==
    [][(allowBit' # allowBit) =>
          /\ lastRefillTime' =
                lastRefillTime + ((bnow - lastRefillTime) \div RefillRate) * RefillRate
          /\ ~capHit' => added' = bnow \div RefillRate]_vars

\* C31: Allow is one atomic refill-check-decrement: it returns true exactly
\* when a token is there after the refill and then takes exactly one, it
\* returns false only with no token there and leaves the count as it was, and
\* once a caller has taken the last token the next caller, with no refill in
\* between, gets false.
C31_Atomic ==
    [][(allowBit' # allowBit) =>
          LET toAdd == (bnow - lastRefillTime) \div RefillRate
              sum == tokens + toAdd
              avail == IF sum > MaxTokens THEN MaxTokens ELSE sum
          IN /\ allowed' = "true" <=> avail >= 1
             /\ allowed' = "true" => tokens' = avail - 1
             /\ allowed' = "false" => tokens' = tokens /\ tokens = 0
             /\ (allowed = "true" /\ tokens = 0 /\ toAdd = 0) => allowed' = "false"]_vars

C31_Witness ==
    /\ allowed = "false"
    /\ tokens = 0
    /\ bnow > 0
    /\ lastRefillTime = bnow
    /\ \E w \in Waiters : waitPc[w] = "ok"
    /\ \E t \in Times : t = bnow /\ succSince[t] = 1

\* C32: Wait returns ok only having consumed exactly one token, returns the
\* cancellation error only having consumed none, and once its ctx is
\* cancelled a Wait that has not returned returns.
C32_Wait ==
    /\ [](\A w \in Waiters :
            /\ waitTook[w] <= 1
            /\ waitPc[w] = "ok" <=> waitTook[w] = 1
            /\ waitPc[w] = "cancelled" => waitCtx[w])
    /\ \A w \in Waiters :
         (waitCtx[w] /\ waitPc[w] \in {"poll", "select"})
             ~> (waitPc[w] \in {"ok", "cancelled"})

C32_Witness ==
    \E w \in Waiters :
        /\ waitPc[w] = "cancelled"
        /\ waitTook[w] = 0
        /\ tokens = 0
        /\ waitStart[w] > 0

\* C35: the goroutine Timeout starts for fn ends once fn has returned,
\* whether or not Timeout has returned by then: its send on errChan always
\* finds room, so it never blocks.
C35_NoLeak ==
    /\ [](opc = "sending" => Len(errChan) < ErrChanCap)
    /\ (opc = "sending") ~> (opc = "exited")

C35_Witness ==
    /\ tpc = "returned"
    /\ tret = "timed_out"
    /\ opLate
    /\ opc = "exited"
    /\ opRes = "err"
    /\ Len(errChan) = ErrChanCap

\* C37: under any interleaving of Execute and Reset calls, a Closed breaker
\* has a failure counter strictly below the threshold.
C37_ClosedBelowThreshold ==
    state = "Closed" => failures < MaxFailures

C37_Witness ==
    /\ state = "Closed"
    /\ failures = MaxFailures - 1
    /\ \E c \in Calls : epc[c] = "calling" /\ lstate[c] = "Open"
    /\ \E c \in Calls : eret[c] = "err"

\* C38 (as stated): Retry returns nil only if an invocation of fn made by this
\* call returned nil, and fn is invoked at least once before Retry returns,
\* whatever the configuration.
C38_Original ==
    rpc = "done" => /\ calls >= 1
                    /\ rret = "nil" => rerr = "nil"

\* C40 (as stated): Timeout returns "operation timed out" only when its
\* duration has elapsed since the call began; a cancellation of the parent
\* context before that is not reported as a timeout.
C40_Original ==
    [][(TimeoutReturns /\ tret' = "timed_out") => DeadlineFired]_vars

\* C33: the status and error of a job are written, after its creation, only
\* by the one executor that received it and only once: a job that is completed
\* or failed is never written again, and no job is held by two executors or
\* still queued while an executor holds it.
C33_WrittenOnce ==
    /\ [][\A j \in Jobs :
            (status[j] # "none" /\ (status'[j] # status[j] \/ jobErr'[j] # jobErr[j])) =>
                /\ status[j] = "pending"
                /\ status'[j] \in {"completed", "failed"}
                /\ \E w \in WorkerIds : wjob[w] = j /\ wjob'[w] = 0]_vars
    /\ [](\A w1, w2 \in WorkerIds :
            (wjob[w1] # 0 /\ wjob[w1] = wjob[w2]) => w1 = w2)
    /\ [](\A i, k \in 1..Len(queue) : queue[i] = queue[k] => i = k)
    /\ [](\A w \in WorkerIds : \A i \in 1..Len(queue) : queue[i] # wjob[w])

C33_Witness ==
    /\ \E j \in Jobs : status[j] = "completed"
    /\ \E j \in Jobs : status[j] = "failed" /\ jobErr[j] = "handler_error"
    /\ \E w1, w2 \in WorkerIds : w1 # w2 /\ wpc[w1] = "select" /\ wpc[w2] = "handling"

\* C34 (as stated): once Start has been called, RegisterHandler does not
\* change the handler table the executors look handlers up in, so no lookup
\* runs together with a write of the table.
C34_Original ==
    /\ [][starts > 0 => handlers' = handlers]_vars
    /\ [](crashed # "map_race")

\* C36 (as stated): when every handler returns whenever it can make progress,
\* a Stop call on a running pool returns, also when a running handler calls
\* Submit on the same pool while Stop is in progress.
C36_Original ==
    (mu = "Stop") ~> (mu = "free" \/ crashed # "none")

\* the backoff the configuration plans between the first and the last attempt
RECURSIVE SumDelays(_)
SumDelays(k) == IF k = 0 THEN 0 ELSE IterDelay(k - 1) + SumDelays(k - 1)

TotalBackoff == IF cfgAttempts >= 2 THEN SumDelays(cfgAttempts - 1) ELSE 0

\* no invocation of fn made by the call returned nil
FnAlwaysFailed == ~(rret = "nil" /\ calls >= 1)

\* C39 (as stated): in RetryWithCircuitBreaker on a Closed breaker with
\* counter 0, with no other caller, an fn that always fails, a total backoff
\* shorter than R and a ctx that is never cancelled, fn is invoked exactly
\* min(A, F) times, each failure is counted once, and the call returns
\* circuit_open if A > F and fn's last error otherwise.
C39_Original ==
    (rpc = "done" /\ FnAlwaysFailed /\ TotalBackoff < ResetTimeout /\ ~ctxDone) =>
        /\ calls = Min(cfgAttempts, MaxFailures)
        /\ failures = calls
        /\ rret = IF cfgAttempts > MaxFailures THEN "circuit_open" ELSE "err"

TypeOK ==
    /\ isRunning \in BOOLEAN
    /\ mu \in {"free", "Stop"}
    /\ Len(queue) <= QueueSize
    /\ wg \in 0..(MaxStarts * NumWorkers)
    /\ \A j \in Jobs : status[j] \in {"none", "pending", "completed", "failed"}
====
